---- MODULE Spec2Model ----
(***************************************************************************)
(* Car recommendation assistant: the console loop of app.py and the web    *)
(* form of ui.py, the query router, direct_car_lookup_text with its raw    *)
(* HTTP fallback, and the crew of four tasks with the single-call          *)
(* extraction fallback.                                                    *)
(*                                                                         *)
(* A Python str is a sequence of chunks (TLA+ strings that stand for a     *)
(* run of characters); " " and "\t" are the whitespace chunks.  A Python   *)
(* or JSON value is a record [tag, str, kids].                             *)
(***************************************************************************)
EXTENDS Integers, Sequences, FiniteSets, TLC

(* ------------------------------ bounds --------------------------------- *)

\* longest line of " " and "car" chunks typed by the user
MaxLen == 7

(* --------------------------- Python strings ---------------------------- *)

IsSpace(c) == c \in {" ", "\t"}

RECURSIVE lstrip(_)
lstrip(s) == IF s # <<>> /\ IsSpace(Head(s)) THEN lstrip(Tail(s)) ELSE s

RECURSIVE rstrip(_)
rstrip(s) ==
    IF s # <<>> /\ IsSpace(s[Len(s)]) THEN rstrip(SubSeq(s, 1, Len(s) - 1)) ELSE s

\* strip with the trimming forgotten
strip_forgotten(s) == s

\* str.strip()
strip(s) == rstrip(lstrip(s))

\* number of tokens of str.split(): the maximal runs of non-whitespace
split_len(s) ==
    Cardinality({i \in 1..Len(s) :
        /\ ~IsSpace(s[i])
        /\ (i = 1 \/ IsSpace(s[i - 1]))})

lower_chunk(c) ==
    CASE c = "EXIT" -> "exit"
      [] c = "Exit" -> "exit"
      [] c = "QUIT" -> "quit"
      [] c = "Quit" -> "quit"
      [] OTHER -> c

\* str.lower()
lower(s) == [i \in 1..Len(s) |-> lower_chunk(s[i])]

\* sub in s
Contains(s, sub) ==
    \E i \in 0..(Len(s) - Len(sub)) : SubSeq(s, i + 1, i + Len(sub)) = sub

(* ---------------------- Python and JSON values ------------------------- *)

None == [tag |-> "null", str |-> <<>>, kids |-> <<>>]
Str(s) == [tag |-> "str", str |-> s, kids |-> <<>>]
Num(s) == [tag |-> "num", str |-> s, kids |-> <<>>]
Arr(vs) == [tag |-> "arr", str |-> <<>>, kids |-> [i \in 1..Len(vs) |-> <<"", vs[i]>>]]
Obj(kvs) == [tag |-> "obj", str |-> <<>>, kids |-> kvs]
\* an object json cannot serialise (json.dumps raises TypeError)
Opaque == [tag |-> "opaque", str |-> <<"<object>">>, kids |-> <<>>]

RECURSIVE Spaces(_)
Spaces(n) == IF n = 0 THEN <<>> ELSE <<"  ">> \o Spaces(n - 1)

\* a JSON string body: the double quote is escaped
escape(s) == [i \in 1..Len(s) |-> IF s[i] = "\"" THEN "\\\"" ELSE s[i]]

\* The serialiser behind json.dumps(v) (indent = 0, py = FALSE),
\* json.dumps(v, indent=2) (indent = 2) and repr(v) (py = TRUE);
\* level is the nesting depth of v.
RECURSIVE dumps_at(_, _, _, _)
RECURSIVE dumps_kids(_, _, _, _, _)
dumps_kids(v, indent, level, py, i) ==
    IF i > Len(v.kids) THEN <<>>
    ELSE (IF indent = 0 THEN <<>> ELSE <<"\n">> \o Spaces(level + 1))
         \o (IF v.tag = "obj"
             THEN (IF py THEN <<"'", v.kids[i][1], "'", ": ">>
                         ELSE <<"\"", v.kids[i][1], "\"", ": ">>)
             ELSE <<>>)
         \o dumps_at(v.kids[i][2], indent, level + 1, py)
         \o (IF i < Len(v.kids)
             THEN (IF indent = 0 THEN <<", ">> ELSE <<",">>)
             ELSE (IF indent = 0 THEN <<>> ELSE <<"\n">> \o Spaces(level)))
         \o dumps_kids(v, indent, level, py, i + 1)
dumps_at(v, indent, level, py) ==
    CASE v.tag = "str" ->
           IF py THEN <<"'">> \o v.str \o <<"'">>
                 ELSE <<"\"">> \o escape(v.str) \o <<"\"">>
      [] v.tag = "num" -> v.str
      [] v.tag = "null" -> IF py THEN <<"None">> ELSE <<"null">>
      [] v.tag = "arr" ->
           IF v.kids = <<>> THEN <<"[]">>
           ELSE <<"[">> \o dumps_kids(v, indent, level, py, 1) \o <<"]">>
      [] v.tag = "obj" ->
           IF v.kids = <<>> THEN <<"{}">>
           ELSE <<"{">> \o dumps_kids(v, indent, level, py, 1) \o <<"}">>
      [] OTHER -> v.str

\* json.dumps raises TypeError on anything else
Serialisable(v) == v.tag \in {"str", "num", "null", "arr", "obj"}

\* json.dumps(v)
json_dumps(v) == dumps_at(v, 0, 0, FALSE)
\* json.dumps(v, indent=2, ensure_ascii=False)
json_dumps_indent(v) == dumps_at(v, 2, 0, FALSE)

\* str(v), as print(v) and the f-string "{v}" show it
py_str(v) == IF v.tag = "str" THEN v.str ELSE dumps_at(v, 0, 0, TRUE)

(* ------------------------- the JSON documents -------------------------- *)

CarText == <<"{", "\"", "model", "\"", ": ", "\"", "Swift", "\"", "}">>
CarProse == <<"Swift is a hatchback">>
CarPrefaced == <<"Here is the JSON:", "\n">> \o CarText

CarObject == Obj(<<<<"model", Str(<<"Swift">>)>>>>)

\* a generateContent response whose first candidate carries text t
GeminiReply(t) ==
    Obj(<<<<"candidates",
            Arr(<<Obj(<<<<"content",
                          Obj(<<<<"parts", Arr(<<Obj(<<<<"text", t>>>>)>>)>>>>)>>>>)>>)>>>>)

\* the values the JSON documents of the model denote
Documents ==
    { CarObject,
      GeminiReply(Str(CarText)),
      GeminiReply(Str(CarProse)),
      GeminiReply(Num(<<"7">>)),
      Obj(<<<<"candidates", Arr(<<>>)>>>>),
      Obj(<<<<"candidates", Str(<<"none">>)>>>>),
      Obj(<<<<"promptFeedback", Str(<<"blocked">>)>>>>),
      Obj(<<<<"candidates", Arr(<<Obj(<<<<"content", Obj(<<<<"parts", Arr(<<>>)>>>>)>>>>)>>)>>>>),
      Arr(<<>>) }

\* the same documents written without the spacing of json.dumps
CarTextLoose == <<"{", "\"", "model", "\"", ":", "\"", "Swift", "\"", "}">>
NoCandidatesLoose == <<"{", "\"", "candidates", "\"", ":", "[]", "}">>

\* json.loads(s) and resp.json(): [ok |-> FALSE] stands for the exception
json_loads(s) ==
    IF \E d \in Documents : json_dumps(d) = s
    THEN [ok |-> TRUE, val |-> CHOOSE d \in Documents : json_dumps(d) = s]
    ELSE IF s = CarTextLoose THEN [ok |-> TRUE, val |-> CarObject]
    ELSE IF s = NoCandidatesLoose
    THEN [ok |-> TRUE, val |-> Obj(<<<<"candidates", Arr(<<>>)>>>>)]
    ELSE [ok |-> FALSE, val |-> None]

\* r[k] on the result of a lookup chain: KeyError and TypeError give ok = FALSE
getitem_key(r, k) ==
    IF r.ok /\ r.val.tag = "obj" /\ \E i \in 1..Len(r.val.kids) : r.val.kids[i][1] = k
    THEN [ok |-> TRUE,
          val |-> r.val.kids[CHOOSE i \in 1..Len(r.val.kids) : r.val.kids[i][1] = k][2]]
    ELSE [ok |-> FALSE, val |-> None]

\* r[0]: the first element of a list, the first character of a str
getitem_0(r) ==
    IF r.ok /\ r.val.tag = "arr" /\ r.val.kids # <<>>
    THEN [ok |-> TRUE, val |-> r.val.kids[1][2]]
    ELSE IF r.ok /\ r.val.tag = "str" /\ r.val.str # <<>>
    THEN [ok |-> TRUE, val |-> Str(<<r.val.str[1]>>)]
    ELSE [ok |-> FALSE, val |-> None]

(* ----------------------------- app.py ---------------------------------- *)

GEMINI_MODEL == "gemini-2.0-flash"

\* the CrewAI LLM client shared by direct lookup, the agents and the fallback
llm == [provider |-> "google", model |-> GEMINI_MODEL, max_tokens |-> 1024]

\* one call that leaves the process: via is "llm.call", "requests.post" or
\* "crew.task"; step is the task of a crew call and 0 otherwise; inputs is the
\* inputs["query"] handed to crew.kickoff
Call(via, prompt, max_tokens, step, inputs) ==
    [via |-> via, prompt |-> prompt, max_tokens |-> max_tokens,
     step |-> step, inputs |-> inputs]

\* outcomes of llm.call(prompt): an exception, or the value returned
LlmRaises == [exc |-> TRUE, val |-> None]
LlmReturns(v) == [exc |-> FALSE, val |-> v]

\* outcomes of requests.post(url, json=payload, timeout=30): an exception
\* (connection error, timeout), or a response with a status and a body
HttpRaises == [exc |-> TRUE, status |-> 0, body |-> <<>>]
HttpResponse(status, body) == [exc |-> FALSE, status |-> status, body |-> body]

\* the prompt of direct_car_lookup_text
lookup_prompt(car_name) ==
    <<"You are an expert on Indian cars. Provide structured JSON for '">>
    \o car_name
    \o <<"'.\n", "Include: model, manufacturer, price_range_in_inr, mileage, ",
         "Return ONLY JSON.">>

\* the request body with the limit of the shared client
payload_1024(prompt) == [contents |-> prompt, maxOutputTokens |-> 1024]

\* the body of the raw generateContent request
payload(prompt) == [contents |-> prompt, maxOutputTokens |-> 512]

\* data["candidates"][0]["content"]["parts"][0]["text"]
extract_text(data) ==
    getitem_key(
        getitem_0(getitem_key(getitem_key(getitem_0(getitem_key(
            [ok |-> TRUE, val |-> data], "candidates")), "content"), "parts")),
        "text")

\* the result of a try block: the value returned, or the exception raised
Returned(v) == [exc |-> FALSE, val |-> v, msg |-> <<>>]
Raised(msg) == [exc |-> TRUE, val |-> None, msg |-> msg]

\* try: if hasattr(llm, "call"): result = llm.call(prompt);
\*      return result if isinstance(result, str) else json.dumps(result)
\* (llm has the attribute: the fallback of the main loop calls it unguarded)
lookup_primary(primary) ==
    IF primary.exc THEN Raised(<<"LLM call failed">>)
    ELSE IF primary.val.tag = "str" THEN Returned(primary.val)
    ELSE IF Serialisable(primary.val) THEN Returned(Str(json_dumps(primary.val)))
    ELSE Raised(<<"TypeError">>)

\* the fallback without the inner try: a response of another shape raises
lookup_fallback_strict(http) ==
    IF http.exc THEN Raised(<<"ConnectionError">>)
    ELSE IF http.status >= 400 THEN Raised(<<"HTTPError">>)
    ELSE LET data == json_loads(http.body) IN
         IF ~data.ok THEN Raised(<<"JSONDecodeError">>)
         ELSE LET text == extract_text(data.val) IN
              IF text.ok THEN Returned(text.val) ELSE Raised(<<"KeyError">>)

\* try: resp = requests.post(...); resp.raise_for_status(); data = resp.json();
\*      try: return data[...]  except: return json.dumps(data)
lookup_fallback(http) ==
    IF http.exc THEN Raised(<<"ConnectionError">>)
    ELSE IF http.status >= 400 THEN Raised(<<"HTTPError">>)
    ELSE LET data == json_loads(http.body) IN
         IF ~data.ok THEN Raised(<<"JSONDecodeError">>)
         ELSE LET text == extract_text(data.val) IN
              IF text.ok THEN Returned(text.val) ELSE Returned(Str(json_dumps(data.val)))

\* f"Error calling Gemini: {e}"
error_string(e) == Str(<<"Error calling ", "Gemini", ": ">> \o e)

\* the lookup without the last except clause: a failed fallback raises
direct_car_lookup_text_raising(car_name, primary, http) ==
    LET prompt == lookup_prompt(car_name)
        first == Call("llm.call", prompt, llm.max_tokens, 0, <<>>)
        second == Call("requests.post", prompt, payload(prompt).maxOutputTokens, 0, <<>>)
        a == lookup_primary(primary)
        b == lookup_fallback(http)
    IN  IF ~a.exc THEN [raised |-> FALSE, ret |-> a.val, calls |-> <<first>>]
        ELSE IF ~b.exc THEN [raised |-> FALSE, ret |-> b.val, calls |-> <<first, second>>]
        ELSE [raised |-> TRUE, ret |-> None, calls |-> <<first, second>>]

\* direct_car_lookup_text(car_name), given the outcome of llm.call and of
\* requests.post: whether it raises, the value returned, the calls issued
direct_car_lookup_text(car_name, primary, http) ==
    LET prompt == lookup_prompt(car_name)
        first == Call("llm.call", prompt, llm.max_tokens, 0, <<>>)
        second == Call("requests.post", prompt, payload(prompt).maxOutputTokens, 0, <<>>)
        a == lookup_primary(primary)
        b == lookup_fallback(http)
    IN  IF ~a.exc THEN [raised |-> FALSE, ret |-> a.val, calls |-> <<first>>]
        ELSE IF ~b.exc THEN [raised |-> FALSE, ret |-> b.val, calls |-> <<first, second>>]
        ELSE [raised |-> FALSE, ret |-> error_string(b.msg), calls |-> <<first, second>>]

(* ------------------------------ the crew ------------------------------- *)

\* the task list with two tasks exchanged
crew_tasks_exchanged == <<1, 3, 2, 4>>

\* Crew(tasks=[task1, task2, task3, task4])
crew_tasks == <<1, 2, 3, 4>>

\* Task(description=...)
description(t) ==
    CASE t = 1 -> <<"Parse user text into a JSON requirements object.">>
      [] t = 2 -> <<"Given requirements, produce JSON of 5 candidate cars">>
      [] t = 3 -> <<"Compare the 5 candidates and return top 3 with pros, cons and score.">>
      [] t = 4 -> <<"Select final recommended car and provide reason & buying tips.">>

RequirementsText == <<"{", "\"", "fuel_preference", "\"", ": ", "\"", "petrol", "\"", "}">>

\* what the model answers to task t; the answer to the last task is final
task_output(t, final) ==
    CASE t = 1 -> RequirementsText
      [] t = 2 -> <<"[", "five candidate cars", "]">>
      [] t = 3 -> <<"[", "top three cars", "]">>
      [] t = 4 -> final

\* the prompt of a task: its description, then the previous output as context
task_prompt(t, context) ==
    description(t)
    \o (IF context = <<>> THEN <<>> ELSE <<"\n", "Context:", "\n">> \o context)

\* what crew.kickoff returns: a CrewOutput whose str() is the last output, or
\* the bare string (ui.py: "Crew sometimes returns dict or string")
crew_result(kind, text) == [tag |-> kind, str |-> text, kids |-> <<>>]

\* the sequential process from position i on: chain.failAt is the position
\* whose call raises (0: none does)
RECURSIVE crew_run(_, _, _, _, _)
crew_run(i, context, issued, inputs, chain) ==
    IF i > Len(crew_tasks)
    THEN [ok |-> TRUE, result |-> crew_result(chain.returns, context), calls |-> issued]
    ELSE LET t == crew_tasks[i]
             call == Call("crew.task", task_prompt(t, context), llm.max_tokens, t, inputs)
         IN  IF chain.failAt = i
             THEN [ok |-> FALSE, result |-> None, calls |-> Append(issued, call)]
             ELSE crew_run(i + 1, task_output(t, chain.final), Append(issued, call),
                           inputs, chain)

\* crew.kickoff(inputs={"query": user_query})
crew_kickoff(query, chain) == crew_run(1, <<>>, <<>>, query, chain)

(* ---------------------------- the front ends --------------------------- *)

\* one piece of output: kind is "label", "parsed", "raw" or "error"
Item(widget, kind, value, text) ==
    [widget |-> widget, kind |-> kind, value |-> value, text |-> text]

\* json.loads(v): TypeError unless v is a str
loads_value(v) == IF v.tag = "str" THEN json_loads(v.str) ELSE [ok |-> FALSE, val |-> None]

\* "Extract JSON requirements from this user query:\n" + user_query + ...
extract_prompt(query) ==
    <<"Extract JSON requirements from this user query:", "\n">>
    \o query \o <<"\n", "Return JSON only.">>

\* the except branch calling the model a second time when asked once
fallback_calls_twice(query) ==
    << Call("llm.call", extract_prompt(query), llm.max_tokens, 0, <<>>),
       Call("llm.call", extract_prompt(query), llm.max_tokens, 0, <<>>) >>

\* the calls of the except branch around crew.kickoff: req = llm.call(prompt)
fallback_calls(query) ==
    <<Call("llm.call", extract_prompt(query), llm.max_tokens, 0, <<>>)>>

\* what one request did: where the front end is afterwards, the decision of
\* the router, the calls issued, the value obtained, what was displayed
Outcome(at, route, issued, value, items) ==
    [pc |-> at, decision |-> route, calls |-> issued, result |-> value, shown |-> items]

\* the console router with the comparison of the comment in ui.py, "< 3 words"
console_route_lt3(query) == IF split_len(query) < 3 THEN "DirectLookup" ELSE "Chain"

\* app.py: if len(user_query.split()) <= 3
console_route(query) == IF split_len(query) <= 3 THEN "DirectLookup" ELSE "Chain"

\* the web router with the comparison of its own comment, "< 3 words"
web_route_lt3(query) == IF split_len(query) < 3 THEN "DirectLookup" ELSE "Chain"

\* ui.py: if len(user_query.split()) <= 3
web_route(query) == IF split_len(query) <= 3 THEN "DirectLookup" ELSE "Chain"

\* the console rendering that reports a parse failure instead of the text
console_render_notice(raw) ==
    LET parsed == loads_value(raw)
    IN  IF parsed.ok
        THEN Item("print", "parsed", parsed.val, json_dumps_indent(parsed.val))
        ELSE Item("print", "raw", None, <<"Invalid JSON">>)

\* app.py: try: print(json.dumps(json.loads(raw), indent=2, ensure_ascii=False))
\*         except: print(raw)
console_render(raw) ==
    LET parsed == loads_value(raw)
    IN  IF parsed.ok
        THEN Item("print", "parsed", parsed.val, json_dumps_indent(parsed.val))
        ELSE Item("print", "raw", None, py_str(raw))

\* ui.py: try: st.json(json.loads(result))  except: st.code(result)
web_render(result) ==
    LET parsed == loads_value(result)
    IN  IF parsed.ok
        THEN Item("st.json", "parsed", parsed.val, <<>>)
        ELSE Item("st.code", "raw", None, py_str(result))

\* ui.py: try: st.json(json.loads(result))  except: st.text(result)
web_render_crew(result) ==
    LET parsed == loads_value(result)
    IN  IF parsed.ok
        THEN Item("st.json", "parsed", parsed.val, <<>>)
        ELSE Item("st.text", "raw", None, py_str(result))

Traceback(widget) == Item(widget, "error", None, <<"Traceback (most recent call last):">>)

\* app.py, one pass of the while loop after input() returned user_query
console_body(query, e) ==
    IF query = <<>> THEN Outcome("input", "none", <<>>, None, <<>>)
    ELSE IF lower(query) \in {<<"exit">>, <<"quit">>}
    THEN Outcome("ended", "none", <<>>, None,
                 <<Item("print", "label", None, <<"Goodbye!">>)>>)
    ELSE IF console_route(query) = "DirectLookup"
    THEN LET r == direct_car_lookup_text(query, e.primary, e.http)
         IN  IF r.raised
             THEN Outcome("crashed", "DirectLookup", r.calls, None, <<Traceback("stderr")>>)
             ELSE Outcome("input", "DirectLookup", r.calls, r.ret,
                          << Item("print", "label", None, <<"--- Car Details (raw) ---">>),
                             console_render(r.ret) >>)
    ELSE LET k == crew_kickoff(query, e.chain)
         IN  IF k.ok
             THEN Outcome("input", "Chain", k.calls, k.result,
                          << Item("print", "label", None, <<"Agent Output:">>),
                             Item("print", "raw", None, py_str(k.result)) >>)
             ELSE Outcome("input", "Chain", k.calls \o fallback_calls(query),
                          IF e.extract.exc THEN None ELSE e.extract.val,
                          << Item("print", "error", None, <<"Crew run error:">>),
                             Item("print", "label", None,
                                  <<"FALLBACK: Extracting requirements using LLM directly...">>),
                             IF e.extract.exc
                             THEN Item("print", "error", None, <<"Fallback error:">>)
                             ELSE Item("print", "raw", None,
                                       <<"Requirements:", " ">> \o py_str(e.extract.val)) >>)

\* ui.py, one run of the script with run_button pressed
web_body(query, e) ==
    IF strip(query) = <<>>
    THEN Outcome("input", "none", <<>>, None,
                 <<Item("st.warning", "label", None, <<"Please enter some text!">>)>>)
    ELSE IF web_route(query) = "DirectLookup"
    THEN LET r == direct_car_lookup_text(query, e.primary, e.http)
         IN  IF r.raised
             THEN Outcome("input", "DirectLookup", r.calls, None, <<Traceback("st.exception")>>)
             ELSE Outcome("input", "DirectLookup", r.calls, r.ret,
                          << Item("st.subheader", "label", None, <<"Car Details (Direct Lookup)">>),
                             web_render(r.ret) >>)
    ELSE LET k == crew_kickoff(query, e.chain)
         IN  IF k.ok
             THEN Outcome("input", "Chain", k.calls, k.result,
                          << Item("st.subheader", "label", None, <<"CrewAI Output">>),
                             web_render_crew(k.result) >>)
             ELSE Outcome("input", "Chain", k.calls \o fallback_calls(query),
                          IF e.extract.exc THEN None ELSE e.extract.val,
                          << Item("st.error", "error", None, <<"Error:">>),
                             Item("st.info", "label", None, <<"Running fallback...">>),
                             IF e.extract.exc
                             THEN Item("st.error", "error", None, <<"Fallback failed:">>)
                             ELSE Item("st.code", "raw", None, py_str(e.extract.val)) >>)

(* ------------------- the user and the outside world -------------------- *)

RECURSIVE SeqsUpTo(_, _)
SeqsUpTo(S, n) ==
    IF n = 0 THEN {<<>>}
    ELSE LET shorter == SeqsUpTo(S, n - 1)
         IN  shorter \cup {Append(s, c) : s \in {t \in shorter : Len(t) = n - 1}, c \in S}

\* what the user may type: every line of at most MaxLen chunks " " and "car",
\* and the lines around the two exit words
Lines ==
    SeqsUpTo({" ", "car"}, MaxLen)
    \cup { <<"exit">>, <<"quit">>, <<" ", "EXIT", "\t">>, <<"Quit", " ">>,
           <<"exit", " ", "car">>, <<"exit", "car">>, <<"\t">>,
           <<" ", "Swift", " ">>, <<"Maruti", "\t", "Swift">> }

\* what llm.call may do in direct_car_lookup_text
PrimaryOutcomes ==
    { LlmRaises, LlmReturns(Str(CarText)), LlmReturns(Str(CarTextLoose)),
      LlmReturns(Str(CarProse)), LlmReturns(Str(CarPrefaced)),
      LlmReturns(CarObject), LlmReturns(Opaque) }

\* what requests.post may do
HttpOutcomes ==
    { HttpRaises, HttpResponse(500, <<"Internal error">>),
      HttpResponse(200, <<"<html>">>), HttpResponse(200, NoCandidatesLoose) }
    \cup { HttpResponse(200, json_dumps(d)) : d \in Documents }

\* what the crew may do: the position that raises, the last answer, and the
\* type kickoff returns
ChainOutcomes ==
    [failAt : 0..Len(crew_tasks), final : {CarText, CarProse}, returns : {"CrewOutput", "str"}]

\* what llm.call may do in the extraction fallback
ExtractOutcomes == { LlmRaises, LlmReturns(Str(RequirementsText)) }

\* the outcomes of the calls nothing consumes
NoEnv ==
    [primary |-> LlmRaises, http |-> HttpRaises,
     chain |-> [failAt |-> 0, final |-> CarProse, returns |-> "CrewOutput"],
     extract |-> LlmRaises]

Envs ==
    { [NoEnv EXCEPT !.primary = p, !.http = h] : p \in PrimaryOutcomes, h \in HttpOutcomes }
    \cup { [NoEnv EXCEPT !.chain = c, !.extract = x] : c \in ChainOutcomes, x \in ExtractOutcomes }

HasCall(o, via) == \E i \in 1..Len(o.calls) : o.calls[i].via = via

\* e names the outcome of exactly the calls that o issued
Consumed(e, o) ==
    /\ o.decision # "DirectLookup" => e.primary = NoEnv.primary
    /\ ~HasCall(o, "requests.post") => e.http = NoEnv.http
    /\ o.decision # "Chain" => e.chain = NoEnv.chain
    /\ ~(o.decision = "Chain" /\ HasCall(o, "llm.call")) => e.extract = NoEnv.extract
    /\ (o.decision = "Chain" /\ e.chain.failAt # 0) =>
            (e.chain.final = NoEnv.chain.final /\ e.chain.returns = NoEnv.chain.returns)

(* ------------------------------ the state ------------------------------ *)

VARIABLES
    ui,          \* "console" (python app.py) or "web" (streamlit run ui.py)
    pc,          \* "input": waiting for the user; "body": handling; "ended"
    typed,       \* the text as the user typed it
    user_query,  \* the variable user_query of the front end
    env,         \* the outcomes of the calls of this request
    decision,    \* "none", "DirectLookup" or "Chain"
    calls,       \* the calls this request issued, in order
    result,      \* the value the lookup, the crew or the fallback gave
    shown        \* what this request displayed, in order

vars == <<ui, pc, typed, user_query, env, decision, calls, result, shown>>

Init ==
    /\ ui \in {"console", "web"}
    /\ pc = "input"
    /\ typed = <<>>
    /\ user_query = <<>>
    /\ env = NoEnv
    /\ decision = "none"
    /\ calls = <<>>
    /\ result = None
    /\ shown = <<>>

Begin(text, query) ==
    /\ pc = "input"
    /\ pc' = "body"
    /\ typed' = text
    /\ user_query' = query
    /\ env' = NoEnv
    /\ decision' = "none"
    /\ calls' = <<>>
    /\ result' = None
    /\ shown' = <<>>
    /\ UNCHANGED ui

Finish(e, o) ==
    /\ pc = "body"
    /\ Consumed(e, o)
    /\ pc' = o.pc
    /\ env' = e
    /\ decision' = o.decision
    /\ calls' = o.calls
    /\ result' = o.result
    /\ shown' = o.shown
    /\ UNCHANGED <<ui, typed, user_query>>

\* user_query = input("\nUser: ").strip(); input() blocks until the user has
\* typed a line and is taken to return one
ConsoleInput ==
    /\ ui = "console"
    /\ \E line \in Lines : Begin(line, strip(line))

\* the rest of the loop body
ConsoleBody ==
    /\ ui = "console"
    /\ \E e \in Envs : Finish(e, console_body(user_query, e))

\* the user fills the text area and presses the button
WebSubmit ==
    /\ ui = "web"
    /\ \E text \in Lines : Begin(text, text)

\* if run_button: ...
WebBody ==
    /\ ui = "web"
    /\ \E e \in Envs : Finish(e, web_body(user_query, e))

Next == ConsoleInput \/ ConsoleBody \/ WebSubmit \/ WebBody

Spec == Init /\ [][Next]_vars

TypeOK ==
    /\ ui \in {"console", "web"}
    /\ pc \in {"input", "body", "ended", "crashed"}
    /\ decision \in {"none", "DirectLookup", "Chain"}
    /\ env \in Envs

(* ------------------------ notions used by the claims ------------------- *)

ExitWords == {<<"exit">>, <<"quit">>}

\* the text is empty or all whitespace
Blank(s) == \A i \in 1..Len(s) : IsSpace(s[i])

\* the text, trimmed and lower-cased, is an exit word
IsExit(s) ==
    \E i \in 1..Len(s) :
        /\ <<lower_chunk(s[i])>> \in ExitWords
        /\ \A k \in 1..Len(s) : k # i => IsSpace(s[k])

\* a request has been handled to its end
Handled == pc # "body"

\* the texts that are JSON documents
JsonTexts == {json_dumps(d) : d \in Documents} \cup {CarTextLoose, NoCandidatesLoose}

IsJson(v) == v.tag = "str" /\ v.str \in JsonTexts

StartsWith(s, prefix) == Len(s) >= Len(prefix) /\ SubSeq(s, 1, Len(prefix)) = prefix

Via(kind) == SelectSeq(calls, LAMBDA c : c.via = kind)

\* the item that shows the result of the request
LastShown == shown[Len(shown)]

(* -------------------------------- C1 ----------------------------------- *)

DirectLookupCalls ==
    decision = "DirectLookup" =>
        /\ pc # "crashed"
        /\ \A i \in 1..Len(shown) : shown[i].text # Traceback("").text
        /\ Len(calls) \in {1, 2}
        /\ calls[1].via = "llm.call"
        /\ Len(Via("llm.call")) = 1
        /\ Len(calls) = 2 => calls[2].via = "requests.post"
        /\ env.primary.exc => Len(Via("requests.post")) = 1
        /\ (Len(calls) = 2 /\ (env.http.exc \/ env.http.status >= 400)) =>
              (result.tag = "str" /\ StartsWith(result.str, <<"Error calling ">>))

DirectLookupCallsWitness ==
    /\ Handled /\ decision = "DirectLookup"
    /\ env.primary.exc /\ env.http.exc
    /\ Len(calls) = 2
    /\ StartsWith(result.str, <<"Error calling ">>)

(* -------------------------------- C3 ----------------------------------- *)

\* C3: when the crew raises, the front end makes exactly one extraction call
\* (llm.call with the "Extract JSON requirements" prompt), after the last crew
\* call, and no crew task is called again; when the crew completes, no
\* extraction call is made.
ChainFallbackOnce ==
    decision = "Chain" =>
        IF env.chain.failAt # 0
        THEN /\ Len(Via("llm.call")) = 1
             /\ calls[Len(calls)].via = "llm.call"
             /\ StartsWith(calls[Len(calls)].prompt,
                           <<"Extract JSON requirements from this user query:">>)
             /\ Contains(calls[Len(calls)].prompt, user_query)
             /\ Len(Via("crew.task")) = Len(calls) - 1
             /\ \A i, j \in 1..Len(calls) - 1 : i # j => calls[i].step # calls[j].step
        ELSE Len(Via("llm.call")) = 0

ChainFallbackOnceWitness ==
    /\ Handled /\ decision = "Chain"
    /\ env.chain.failAt = 2
    /\ Len(calls) = 3
    /\ calls[3].via = "llm.call"

(* -------------------------------- C4 ----------------------------------- *)

\* C4: the crew calls task 1, 2, 3, 4 in this order, none skipped or
\* repeated; from the second on, the prompt contains the output of the task
\* before; the task that fails is the last one called.
ChainOrder ==
    decision = "Chain" =>
        LET cc == Via("crew.task") IN
        /\ Len(cc) = (IF env.chain.failAt = 0 THEN 4 ELSE env.chain.failAt)
        /\ \A i \in 1..Len(cc) :
              /\ cc[i].step = i
              /\ cc[i] = calls[i]
              /\ i >= 2 => Contains(cc[i].prompt, task_output(i - 1, env.chain.final))

ChainOrderWitness ==
    /\ Handled /\ decision = "Chain"
    /\ env.chain.failAt = 0
    /\ Len(calls) = 4
    /\ Contains(calls[4].prompt, task_output(3, env.chain.final))

(* -------------------------------- C5 ----------------------------------- *)

\* C5: a text that is empty or all whitespace never reaches the router: no
\* decision, no call, and the front end waits for the next text.
EmptyNeverRouted ==
    (Handled /\ Blank(typed)) =>
        /\ decision = "none"
        /\ calls = <<>>
        /\ pc = "input"

EmptyNeverRoutedWitness ==
    /\ Handled /\ typed # <<>> /\ Blank(typed)
    /\ decision = "none"

(* -------------------------------- C6 ----------------------------------- *)

\* C6: a Direct Lookup result that is valid JSON is shown parsed; any other
\* result is shown as the very text that was returned.
LookupRendering ==
    (decision = "DirectLookup" /\ pc # "crashed") =>
        IF IsJson(result)
        THEN /\ LastShown.kind = "parsed"
             /\ json_dumps(LastShown.value) \in JsonTexts
             /\ json_loads(result.str).val = LastShown.value
        ELSE /\ LastShown.kind = "raw"
             /\ result.tag = "str" => LastShown.text = result.str
             /\ LastShown.text # <<>>

LookupRenderingWitness ==
    /\ Handled /\ decision = "DirectLookup"
    /\ result = Str(CarPrefaced)
    /\ LastShown.kind = "raw"
    /\ LastShown.text = CarPrefaced

(* -------------------------------- C7 ----------------------------------- *)

\* C7: the console loop survives every request: after a direct lookup or a
\* chain, whatever their outcome, something has been shown and the loop is
\* back at input(); the loop has ended only if the text typed was an exit
\* word.
ConsoleSurvives ==
    ui = "console" =>
        /\ pc # "crashed"
        /\ pc = "ended" => IsExit(typed)
        /\ decision # "none" =>
              /\ pc = "input"
              /\ LastShown.kind \in {"parsed", "raw", "error"}

ConsoleSurvivesWitness ==
    /\ ui = "console" /\ pc = "input"
    /\ decision = "Chain"
    /\ env.chain.failAt # 0 /\ env.extract.exc
    /\ LastShown.kind = "error"

(* -------------------------------- C8 ----------------------------------- *)

\* C8 as stated: every call of Direct Lookup, the llm.call and the
\* requests.post alike, carries an output limit of 512 tokens.
LookupCallsAt512 ==
    decision = "DirectLookup" =>
        \A i \in 1..Len(calls) : calls[i].max_tokens = 512

\* C8 amended: the requests.post of Direct Lookup carries an output limit of
\* 512 tokens, and its llm.call carries the limit the shared client was built
\* with, 1024.
LookupTokenLimits ==
    decision = "DirectLookup" =>
        \A i \in 1..Len(calls) :
            calls[i].max_tokens = (IF calls[i].via = "requests.post" THEN 512 ELSE 1024)

LookupTokenLimitsWitness ==
    /\ Handled /\ decision = "DirectLookup"
    /\ Len(calls) = 2
    /\ calls[1].max_tokens = 1024
    /\ calls[2].max_tokens = 512

(* -------------------------------- C9 ----------------------------------- *)

\* the requests.post of this request came back with a success status
HttpSucceeded ==
    /\ decision = "DirectLookup"
    /\ Len(Via("requests.post")) = 1
    /\ ~env.http.exc
    /\ env.http.status < 400

\* the texts a well-shaped response may carry
ReplyTexts == {Str(CarText), Str(CarProse), Num(<<"7">>)}

HasReplyShape(body) == \E t \in ReplyTexts : body = json_dumps(GeminiReply(t))

ReplyText(body) == CHOOSE t \in ReplyTexts : body = json_dumps(GeminiReply(t))

\* C9 as stated: after a successful HTTP call the lookup returns
\* candidates[0].content.parts[0].text when the response has that shape, and
\* the entire raw response body otherwise, never an error string.
FallbackReturnsTextOrRawBody ==
    HttpSucceeded =>
        IF HasReplyShape(env.http.body)
        THEN result = ReplyText(env.http.body)
        ELSE result = Str(env.http.body)

\* C9 amended: after a successful HTTP call whose body is JSON, the lookup
\* returns the value at candidates[0].content.parts[0].text when that path
\* exists, and otherwise the parsed body serialised again by json.dumps (the
\* same document, not necessarily the same text); when the body is not JSON
\* it returns the "Error calling " string; it never raises.
FallbackReturnsTextOrDumpedBody ==
    HttpSucceeded =>
        /\ pc # "crashed"
        /\ IF env.http.body \notin JsonTexts
           THEN result.tag = "str" /\ StartsWith(result.str, <<"Error calling ">>)
           ELSE IF HasReplyShape(env.http.body)
           THEN result = ReplyText(env.http.body)
           ELSE /\ IsJson(result)
                /\ json_loads(result.str).val = json_loads(env.http.body).val
                /\ result.str = json_dumps(json_loads(env.http.body).val)

FallbackReturnsTextOrDumpedBodyWitness ==
    /\ Handled /\ HttpSucceeded
    /\ env.http.body = NoCandidatesLoose
    /\ result.str # env.http.body
    /\ json_loads(result.str) = json_loads(env.http.body)

(* -------------------------------- C10 ---------------------------------- *)

\* a sequence of calls without the texts: kind, limit and task of each
Skeleton(cs) == [i \in 1..Len(cs) |-> <<cs[i].via, cs[i].max_tokens, cs[i].step>>]

\* how the result of a request was rendered
Rendering(o) ==
    IF o.shown = <<>> THEN <<"nothing", None>>
    ELSE <<o.shown[Len(o.shown)].kind, o.shown[Len(o.shown)].value>>

\* what this front end did, and what the other one does with the same typed
\* text and the same outcomes of the calls
ThisFrontEnd ==
    [pc |-> pc, decision |-> decision, calls |-> calls, result |-> result, shown |-> shown]
OtherFrontEnd ==
    IF ui = "console" THEN web_body(typed, env) ELSE console_body(strip(typed), env)

\* C10 as stated: for every text that is not blank, the console loop and the
\* web form take the same decision, put the same text into the same prompts,
\* issue the same calls and render the result the same way.
FrontEndsEquivalent ==
    (Handled /\ ~Blank(typed)) =>
        /\ decision = OtherFrontEnd.decision
        /\ calls = OtherFrontEnd.calls
        /\ result = OtherFrontEnd.result
        /\ Rendering(ThisFrontEnd) = Rendering(OtherFrontEnd)

\* C10 amended: for every text that is not blank and not an exit word, both
\* front ends take the same decision and issue the same sequence of calls
\* (same kinds, limits and tasks) and obtain the same result; the console
\* puts the trimmed text into its prompts and the web form the text as typed,
\* so the prompts are equal when the text has no surrounding whitespace, and
\* the console on a text does what the web form does on the trimmed text; a
\* Direct Lookup result is rendered the same way by both, a Chain result is
\* printed as text by the console and parsed first by the web form.
FrontEndsAgreeUpToTrimming ==
    (Handled /\ ~Blank(typed) /\ ~IsExit(typed)) =>
        LET c == console_body(strip(typed), env)
            w == web_body(typed, env)
            wt == web_body(strip(typed), env)
        IN  /\ ThisFrontEnd = (IF ui = "console" THEN c ELSE w)
            /\ c.decision = w.decision
            /\ Skeleton(c.calls) = Skeleton(w.calls)
            /\ c.result = w.result
            /\ c.calls = wt.calls
            /\ typed = strip(typed) => c.calls = w.calls
            /\ c.decision = "DirectLookup" => Rendering(c) = Rendering(w)
            /\ c.decision = "Chain" =>
                  \/ Rendering(c) = Rendering(w)
                  \/ /\ Rendering(c)[1] = "raw"
                     /\ Rendering(w)[1] = "parsed"
                     /\ c.result.tag = "str"

FrontEndsAgreeUpToTrimmingWitness ==
    /\ Handled /\ ui = "web"
    /\ decision = "DirectLookup"
    /\ typed # strip(typed)
    /\ calls # console_body(strip(typed), env).calls

====
